---- MODULE Spec2Model ----
(***************************************************************************)
(* A state-machine model of src/python/generate_charts.py: a single-pass   *)
(* script that loads a CSV table, normalises it, keeps the "Both sexes"    *)
(* rows, annotates them with a continent, and writes two chart documents.  *)
(* Every statement of the script is one action; pc is the position of the  *)
(* interpreter, err the exception that ended the run (if any).             *)
(*                                                                         *)
(* Encoding of values.  A column label is a string; Spelling gives its     *)
(* characters, so that str.lower() is computed character by character.  A  *)
(* raw CSV field is a string ("" is the empty field).  A DataFrame cell is *)
(* a record [k, s, n]: k = "null" (NaN / None / <NA>), k = "str" with the  *)
(* text in s, or k = "num" with the number in n as a fixed-point value in  *)
(* tenths (81.5 is n = 815, 2010 is n = 20100).  A document is written by  *)
(* a save and embeds the rows of its chart, whose columns are those of     *)
(* df_both.                                                                *)
(***************************************************************************)
EXTENDS Integers, Sequences, FiniteSets, TLC

VARIABLES
    pc,              \* position of the script
    err,             \* "none", or the exception that aborted the run
    csv,             \* the input file: [header, rows] of raw text
    columns,         \* df.columns
    dtypes,          \* df.dtypes, aligned with columns
    df,              \* rows of df, each aligned with columns
    both_columns,    \* df_both.columns
    df_both,         \* rows of df_both
    df_scatter,      \* rows of df_scatter
    df_gapminder,    \* rows of df_gapminder
    years,           \* the sorted list of distinct years
    year_slider,     \* the binding_range: [min, max, step]
    year_selection,  \* the selection parameter: its initial value
    shown_year,      \* the year the reader of the bubble document has selected
    files            \* the two output documents

vars == <<pc, err, csv, columns, dtypes, df, both_columns, df_both, df_scatter,
          df_gapminder, years, year_slider, year_selection, shown_year, files>>

---------------------------------------------------------------------------
(* Bounds of the model *)

MaxRows == 2

---------------------------------------------------------------------------
(* Column labels used by the script *)

COUNTRY == "country"
GENDER == "gender"
YEAR == "year"
DIET == "diet composition fruit and vegetables"
LIFE == "life expectancy"
GDP == "gdp per capita"
POP == "total population"
CONTINENT == "continent"

(* Headers as they may be spelled in the input file *)
RawCountry == "Country"
RawGender == "Gender"
RawYear == "Year"
RawDiet == "Diet Composition Fruit And Vegetables"
RawLife == "Life Expectancy"
RawGdp == "Gdp Per Capita"
RawPop == "Total Population"

TitleHeader == <<RawCountry, RawGender, RawYear, RawDiet, RawLife, RawGdp, RawPop>>
LowerHeader == <<COUNTRY, GENDER, YEAR, DIET, LIFE, GDP, POP>>

(* The characters of every label of the model, one string per character    *)
Spelling ==
    (COUNTRY :> <<"c","o","u","n","t","r","y">>) @@
    (GENDER :> <<"g","e","n","d","e","r">>) @@
    (YEAR :> <<"y","e","a","r">>) @@
    (DIET :> <<"d","i","e","t"," ","c","o","m","p","o","s","i","t","i","o","n"," ","f","r","u","i","t"," ","a","n","d"," ","v","e","g","e","t","a","b","l","e","s">>) @@
    (LIFE :> <<"l","i","f","e"," ","e","x","p","e","c","t","a","n","c","y">>) @@
    (GDP :> <<"g","d","p"," ","p","e","r"," ","c","a","p","i","t","a">>) @@
    (POP :> <<"t","o","t","a","l"," ","p","o","p","u","l","a","t","i","o","n">>) @@
    (CONTINENT :> <<"c","o","n","t","i","n","e","n","t">>) @@
    (RawCountry :> <<"C","o","u","n","t","r","y">>) @@
    (RawGender :> <<"G","e","n","d","e","r">>) @@
    (RawYear :> <<"Y","e","a","r">>) @@
    (RawDiet :> <<"D","i","e","t"," ","C","o","m","p","o","s","i","t","i","o","n"," ","F","r","u","i","t"," ","A","n","d"," ","V","e","g","e","t","a","b","l","e","s">>) @@
    (RawLife :> <<"L","i","f","e"," ","E","x","p","e","c","t","a","n","c","y">>) @@
    (RawGdp :> <<"G","d","p"," ","P","e","r"," ","C","a","p","i","t","a">>) @@
    (RawPop :> <<"T","o","t","a","l"," ","P","o","p","u","l","a","t","i","o","n">>)

UpperToLower ==
    ("A" :> "a") @@ ("B" :> "b") @@ ("C" :> "c") @@ ("D" :> "d") @@ ("E" :> "e") @@
    ("F" :> "f") @@ ("G" :> "g") @@ ("H" :> "h") @@ ("I" :> "i") @@ ("J" :> "j") @@
    ("K" :> "k") @@ ("L" :> "l") @@ ("M" :> "m") @@ ("N" :> "n") @@ ("O" :> "o") @@
    ("P" :> "p") @@ ("Q" :> "q") @@ ("R" :> "r") @@ ("S" :> "s") @@ ("T" :> "t") @@
    ("U" :> "u") @@ ("V" :> "v") @@ ("W" :> "w") @@ ("X" :> "x") @@ ("Y" :> "y") @@
    ("Z" :> "z")

(* str.lower() on one character *)
LowerChar(c) == IF c \in DOMAIN UpperToLower THEN UpperToLower[c] ELSE c

(* the label that is spelled chars *)
Label(chars) == CHOOSE t \in DOMAIN Spelling : Spelling[t] = chars

(* clean_col(name): name.lower() *)
clean_col(name) ==
    Label([i \in DOMAIN Spelling[name] |-> LowerChar(Spelling[name][i])])

---------------------------------------------------------------------------
(* Cells *)

Null == [k |-> "null", s |-> "", n |-> 0]
Str(t) == [k |-> "str", s |-> t, n |-> 0]
Num(x) == [k |-> "num", s |-> "", n |-> x]

IsNull(c) == c.k = "null"

(* The numeric literals of the input universe and the numbers they denote  *)
(* (in tenths).  A text outside this table does not parse as a number.     *)
NumericLiteral ==
    ("2010" :> 20100) @@ ("2010.0" :> 20100) @@ ("2010.5" :> 20105) @@
    ("2011" :> 20110) @@ ("2012" :> 20120) @@
    ("5" :> 50) @@ ("81.5" :> 815) @@ ("35000" :> 350000) @@
    ("65000000" :> 650000000)

Parses(t) == t \in DOMAIN NumericLiteral

(* The literals spelled as integers: digits only, no decimal point.  The   *)
(* parser types a value by its spelling: "2010.0" is a float.              *)
IntegerLiterals == {"2010", "2011", "2012", "5", "35000", "65000000"}

IsIntegerLiteral(t) == t \in IntegerLiterals

IsWhole(x) == x % 10 = 0

(* int(x) of a whole number *)
IntOf(x) == x \div 10

---------------------------------------------------------------------------
(* Generic sequence helpers *)

Column(rows, i) == [r \in DOMAIN rows |-> rows[r][i]]

HasCol(cols, name) == \E i \in DOMAIN cols : cols[i] = name

ColIdx(cols, name) == CHOOSE i \in DOMAIN cols : cols[i] = name

SeqsUpTo(S, n) == UNION {[1..m -> S] : m \in 0..n}

---------------------------------------------------------------------------
(* Loader: pd.read_csv with its column type inference *)

(* An empty field is a missing value *)
IsNA(t) == t = ""

(* dtype that read_csv infers for a column of raw fields: int64 when every *)
(* field is spelled as an integer, float64 when every field is a number or *)
(* missing, object otherwise (and for a column without rows)               *)
InferDtype(fields) ==
    IF \A i \in DOMAIN fields : IsNA(fields[i]) \/ Parses(fields[i])
    THEN IF \A i \in DOMAIN fields : IsIntegerLiteral(fields[i])
         THEN IF fields = <<>> THEN "object" ELSE "int64"
         ELSE "float64"
    ELSE "object"

(* the cell read_csv stores for one raw field of a column of that dtype *)
ReadCell(t, dtype) ==
    IF IsNA(t) THEN Null
    ELSE IF dtype = "object" THEN Str(t)
    ELSE Num(NumericLiteral[t])

read_csv_dtypes(file) ==
    [i \in DOMAIN file.header |-> InferDtype(Column(file.rows, i))]

read_csv_rows(file) ==
    [r \in DOMAIN file.rows |->
        [i \in DOMAIN file.header |->
            ReadCell(file.rows[r][i], InferDtype(Column(file.rows, i)))]]

---------------------------------------------------------------------------
(* Normalizer *)

(* df.drop_duplicates(): keep the first occurrence of every row *)
drop_duplicates(rows) ==
    LET F[i \in 0..Len(rows)] ==
            IF i = 0 THEN <<>>
            ELSE IF \E j \in 1..(i - 1) : rows[j] = rows[i]
                 THEN F[i - 1]
                 ELSE Append(F[i - 1], rows[i])
    IN F[Len(rows)]

(* the columns the script types as categorical *)
CategoricalColumns == {COUNTRY, GENDER}

(* astype('category') on the columns that are present *)
astype_category(cols, types) ==
    [i \in DOMAIN cols |->
        IF cols[i] \in CategoricalColumns THEN "category" ELSE types[i]]

(* pd.to_numeric(value, errors='coerce') on one cell *)
CoerceCell(c) ==
    IF c.k = "str"
    THEN IF Parses(c.s) THEN Num(NumericLiteral[c.s]) ELSE Null
    ELSE c

(* pd.to_numeric(series, errors='coerce') *)
to_numeric_coerce(cells) == [i \in DOMAIN cells |-> CoerceCell(cells[i])]

(* astype('Int64') raises TypeError on a value that is not a whole number *)
Int64CastFails(cells) ==
    \E i \in DOMAIN cells : cells[i].k = "num" /\ ~IsWhole(cells[i].n)

(* dtype of pd.to_numeric of a series of texts that all parse: int64 when  *)
(* every value is a text spelled as an integer, float64 otherwise          *)
NumericDtype(cells) ==
    IF \A i \in DOMAIN cells : cells[i].k = "str" /\ IsIntegerLiteral(cells[i].s)
    THEN "int64" ELSE "float64"

(* a series pd.to_numeric can convert as a whole *)
AllParse(cells) ==
    \A i \in DOMAIN cells : cells[i].k = "str" => Parses(cells[i].s)

(* a conversion value by value, keeping the text of the values that fail *)
to_numeric_per_value(cells) ==
    [i \in DOMAIN cells |->
        IF cells[i].k = "str" /\ Parses(cells[i].s)
        THEN CoerceCell(cells[i]) ELSE cells[i]]

(* pd.to_numeric(series, errors='ignore'): the converted series, or the    *)
(* input itself as soon as one value fails to parse                        *)
to_numeric_ignore(cells) ==
    IF AllParse(cells) THEN to_numeric_coerce(cells) ELSE cells

(* the columns the loop at lines 42-44 converts *)
IsCoercible(cols, types, i) ==
    types[i] = "object" /\ cols[i] \notin CategoricalColumns

(* with column i of rows replaced by cells *)
SetColumn(rows, i, cells) ==
    [r \in DOMAIN rows |-> [rows[r] EXCEPT ![i] = cells[r]]]

coerce_year_rows(cols, rows) ==
    IF HasCol(cols, YEAR)
    THEN SetColumn(rows, ColIdx(cols, YEAR),
                   to_numeric_coerce(Column(rows, ColIdx(cols, YEAR))))
    ELSE rows

coerce_year_dtypes(cols, types) ==
    [i \in DOMAIN cols |-> IF cols[i] = YEAR THEN "Int64" ELSE types[i]]

coerce_other_rows(cols, types, rows) ==
    [r \in DOMAIN rows |->
        [i \in DOMAIN cols |->
            IF IsCoercible(cols, types, i)
            THEN to_numeric_ignore(Column(rows, i))[r]
            ELSE rows[r][i]]]

coerce_other_dtypes(cols, types, rows) ==
    [i \in DOMAIN cols |->
        IF IsCoercible(cols, types, i) /\ AllParse(Column(rows, i))
        THEN NumericDtype(Column(rows, i))
        ELSE types[i]]

(* lines 26-44 as one function of a table: the normalized table, or the   *)
(* table as it is when .astype('Int64') raises at line 39                  *)
Normalizer(cols, types, rows) ==
    LET c1 == [i \in DOMAIN cols |-> clean_col(cols[i])]
        r1 == drop_duplicates(rows)
        t1 == astype_category(c1, types)
        r2 == coerce_year_rows(c1, r1)
        t2 == coerce_year_dtypes(c1, t1)
    IN IF HasCol(c1, YEAR) /\ Int64CastFails(Column(r2, ColIdx(c1, YEAR)))
       THEN [err |-> "TypeError", columns |-> c1, dtypes |-> t1, rows |-> r1]
       ELSE [err |-> "none",
             columns |-> c1,
             dtypes |-> coerce_other_dtypes(c1, t2, r2),
             rows |-> coerce_other_rows(c1, t2, r2)]

---------------------------------------------------------------------------
(* Filter *)

(* a comparison that ignores the case of the first letter *)
IsBothSexesAnyCase(c) == c.k = "str" /\ c.s \in {"Both sexes", "both sexes"}

(* df["gender"] == "Both sexes", for one cell *)
IsBothSexes(c) == c.k = "str" /\ c.s = "Both sexes"

filter_both(cols, rows) ==
    SelectSeq(rows, LAMBDA r : IsBothSexes(r[ColIdx(cols, GENDER)]))

---------------------------------------------------------------------------
(* Geo-Enricher: the three lookups of pycountry_convert *)

(* pc.country_name_to_country_alpha2: the names it knows *)
CountryAlpha2 == ("France" :> "FR") @@ ("Japan" :> "JP") @@ ("Timor-Leste" :> "TL")

(* pc.country_alpha2_to_continent_code: the codes that have a continent *)
Alpha2ContinentCode == ("FR" :> "EU") @@ ("JP" :> "AS")

(* pc.convert_continent_code_to_continent_name *)
ContinentCodeName ==
    ("AF" :> "Africa") @@ ("AN" :> "Antarctica") @@ ("AS" :> "Asia") @@
    ("EU" :> "Europe") @@ ("NA" :> "North America") @@ ("OC" :> "Oceania") @@
    ("SA" :> "South America")

(* Whether the three lookups succeed for this cell; outage = k > 0 means    *)
(* that the k-th lookup raises whatever it is given, outage = 0 that the   *)
(* lookups answer from their tables.                                       *)
LookupSucceeds(c, outage) ==
    /\ outage # 1 /\ c.k = "str" /\ c.s \in DOMAIN CountryAlpha2
    /\ outage # 2 /\ CountryAlpha2[c.s] \in DOMAIN Alpha2ContinentCode
    /\ outage # 3
    /\ Alpha2ContinentCode[CountryAlpha2[c.s]] \in DOMAIN ContinentCodeName

(* an except clause that returns a placeholder label *)
ExceptValueUnknown == Str("Unknown")

(* what the except clause returns: None *)
ExceptValue == Null

(* country_to_continent(country_name) *)
country_to_continent(c, outage) ==
    IF LookupSucceeds(c, outage)
    THEN Str(ContinentCodeName[Alpha2ContinentCode[CountryAlpha2[c.s]]])
    ELSE ExceptValue

(* the distinct values of the country column: apply calls the function     *)
(* once for each of them                                                   *)
CountryValues(cols, rows) == {rows[r][ColIdx(cols, COUNTRY)] : r \in DOMAIN rows}

(* df_both['country'].apply(country_to_continent), as the new last column; *)
(* outage[c] is the behaviour of the lookups in the call for the value c   *)
enrich(cols, rows, outage) ==
    [r \in DOMAIN rows |->
        LET c == rows[r][ColIdx(cols, COUNTRY)]
        IN Append(rows[r], country_to_continent(c, outage[c]))]

---------------------------------------------------------------------------
(* Chart builders *)

(* a subset that leaves the dietary indicator out *)
ScatterSubsetLifeOnly == {LIFE}

(* line 54: the columns whose missing values drop a row of the scatter chart *)
ScatterSubset == {DIET, LIFE}

(* a subset that leaves the continent out *)
GapminderSubsetNoContinent == {GDP, LIFE, POP, YEAR}

(* line 100: the columns whose missing values drop a row of the bubble chart *)
GapminderSubset == {GDP, LIFE, POP, CONTINENT, YEAR}

(* the labels of subset that DataFrame.dropna does not find: a KeyError *)
MissingColumns(cols, subset) == {c \in subset : ~HasCol(cols, c)}

(* DataFrame.dropna(subset=...) *)
dropna(cols, rows, subset) ==
    SelectSeq(rows, LAMBDA r : \A c \in subset : ~IsNull(r[ColIdx(cols, c)]))

(* insert x into the ascending sequence s *)
RECURSIVE InsertSorted(_, _)
InsertSorted(s, x) ==
    IF s = <<>> THEN <<x>>
    ELSE IF x <= Head(s) THEN <<x>> \o s
    ELSE <<Head(s)>> \o InsertSorted(Tail(s), x)

(* sorted(S) of a set of numbers *)
RECURSIVE SortedSeq(_)
SortedSeq(S) ==
    IF S = {} THEN <<>>
    ELSE LET x == CHOOSE y \in S : TRUE
         IN InsertSorted(SortedSeq(S \ {x}), x)

(* sorted(df_gapminder['year'].unique()) *)
sorted_years(cols, rows) ==
    SortedSeq({rows[r][ColIdx(cols, YEAR)].n : r \in DOMAIN rows})

ScatterPath == "../charts/fruit_vegetable_life_expectancy.html"
BubblePath == "../charts/gdp_life_expectancy_bubble_chart.html"

NoDocument == [written |-> FALSE, data |-> <<>>]
(* a save that writes nothing *)
DocumentUnsaved(rows) == [written |-> FALSE, data |-> rows]

(* chart.save(path): the document embeds the chart's data *)
Document(rows) == [written |-> TRUE, data |-> rows]

NoSlider == [min |-> 0, max |-> 0, step |-> 0]

(* the values a range control can be set to *)
SliderValues(sl) ==
    IF sl.step = 0 THEN {}
    ELSE {sl.min + i * sl.step : i \in 0..((sl.max - sl.min) \div sl.step)}

(* transform_filter(year_selection): the rows a document shows *)
Shown(cols, doc, sel) ==
    SelectSeq(doc.data, LAMBDA r :
        LET c == r[ColIdx(cols, YEAR)]
        IN c.k = "num" /\ c.n = sel * 10)

---------------------------------------------------------------------------
(* Input files.  A raw row lists country, gender, year, dietary indicator,  *)
(* life expectancy, gdp per capita and total population, in this order.    *)

Countries == {"France", "Japan", "Neverland", "Timor-Leste", ""}
Genders == {"Both sexes", "both sexes", "Male", ""}
YearTexts == {"2010", "2010.0", "2012", "2010.5", "abc", ""}
DietTexts == {"5", "abc", ""}

(* rows that vary the country and the gender *)
GeoRows ==
    {<<c, g, "2010", "5", "81.5", "35000", "65000000">> :
        c \in Countries, g \in Genders}

(* rows that vary the text of the year and of a numeric indicator *)
NormRows ==
    {<<"France", "Both sexes", y, d, "81.5", "35000", "65000000">> :
        y \in YearTexts, d \in DietTexts}

(* rows that vary the year and the missing values of the bubble chart *)
BubbleRows ==
    {<<"France", "Both sexes", y, "5", l, p, t>> :
        y \in {"2010", "2012"}, l \in {"81.5", ""}, p \in {"35000", ""},
        t \in {"65000000", ""}}

(* rows of the files whose header varies *)
SchemaRows ==
    {<<"France", g, "2010", "5", "81.5", "35000", "65000000">> :
        g \in {"Both sexes", "Male"}}

(* s without its i-th element (i = 0: s itself) *)
Without(s, i) == [j \in 1..(Len(s) - (IF i = 0 THEN 0 ELSE 1)) |->
                    IF i = 0 \/ j < i THEN s[j] ELSE s[j + 1]]

FullFiles ==
    {[header |-> TitleHeader, rows |-> rows] :
        rows \in SeqsUpTo(GeoRows, MaxRows) \cup SeqsUpTo(NormRows, MaxRows)
                 \cup SeqsUpTo(BubbleRows, MaxRows)}

(* files with at most one of the seven columns absent *)
SchemaFiles ==
    {[header |-> Without(h, i),
      rows |-> [r \in DOMAIN rows |-> Without(rows[r], i)]] :
        h \in {TitleHeader, LowerHeader}, i \in 0..Len(TitleHeader),
        rows \in SeqsUpTo(SchemaRows, MaxRows)}

InputFiles == FullFiles \cup SchemaFiles

---------------------------------------------------------------------------
(* The script *)

(* the script runs until an exception escapes *)
Running == err = "none"

(* the statements of the script, in the order they run *)
Steps ==
    <<"read_csv", "clean_columns", "drop_duplicates", "categorical", "year",
      "numeric", "filter", "enrich", "scatter_data", "scatter_save",
      "bubble_data", "years", "year_control", "bubble_save", "done">>

Rank(step) == CHOOSE i \in DOMAIN Steps : Steps[i] = step

(* the statement named step has run to its end *)
Completed(step) == Rank(pc) > Rank(step)

(* the run is over, normally or by an exception *)
Ended == pc = "done" \/ ~Running

Init ==
    /\ pc = "read_csv"
    /\ err = "none"
    /\ csv \in InputFiles
    /\ columns = <<>>
    /\ dtypes = <<>>
    /\ df = <<>>
    /\ both_columns = <<>>
    /\ df_both = <<>>
    /\ df_scatter = <<>>
    /\ df_gapminder = <<>>
    /\ years = <<>>
    /\ year_slider = NoSlider
    /\ year_selection = 0
    /\ shown_year = 0
    /\ files = [p \in {ScatterPath, BubblePath} |-> NoDocument]

(* an uncaught exception ends the script at the statement that raised it *)
Raise(e) == pc' = pc /\ err' = e

(* line 8: df = pd.read_csv(...) *)
Load ==
    /\ pc = "read_csv"
    /\ Running
    /\ columns' = csv.header
    /\ dtypes' = read_csv_dtypes(csv)
    /\ df' = read_csv_rows(csv)
    /\ pc' = "clean_columns"
    /\ UNCHANGED <<err, csv, both_columns, df_both, df_scatter, df_gapminder,
                   years, year_slider, year_selection, shown_year, files>>

(* line 26: df.columns = [clean_col(c) for c in df.columns] *)
CleanColumns ==
    /\ pc = "clean_columns"
    /\ Running
    /\ columns' = [i \in DOMAIN columns |-> clean_col(columns[i])]
    /\ pc' = "drop_duplicates"
    /\ UNCHANGED <<err, csv, dtypes, df, both_columns, df_both, df_scatter,
                   df_gapminder, years, year_slider, year_selection, shown_year, files>>

(* line 29: df = df.drop_duplicates() *)
DropDuplicates ==
    /\ pc = "drop_duplicates"
    /\ Running
    /\ df' = drop_duplicates(df)
    /\ pc' = "categorical"
    /\ UNCHANGED <<err, csv, columns, dtypes, both_columns, df_both, df_scatter,
                   df_gapminder, years, year_slider, year_selection, shown_year, files>>

(* lines 32-35: country, gender --> categorical *)
Categorical ==
    /\ pc = "categorical"
    /\ Running
    /\ dtypes' = astype_category(columns, dtypes)
    /\ pc' = "year"
    /\ UNCHANGED <<err, csv, columns, df, both_columns, df_both, df_scatter,
                   df_gapminder, years, year_slider, year_selection, shown_year, files>>

(* lines 38-39: year --> integer type *)
CoerceYear ==
    /\ pc = "year"
    /\ Running
    /\ IF HasCol(columns, YEAR)
          /\ Int64CastFails(Column(coerce_year_rows(columns, df), ColIdx(columns, YEAR)))
       THEN /\ Raise("TypeError")
            /\ UNCHANGED <<df, dtypes>>
       ELSE /\ df' = coerce_year_rows(columns, df)
            /\ dtypes' = coerce_year_dtypes(columns, dtypes)
            /\ pc' = "numeric"
            /\ err' = err
    /\ UNCHANGED <<csv, columns, both_columns, df_both, df_scatter,
                   df_gapminder, years, year_slider, year_selection, shown_year, files>>

(* lines 42-44: convert other string columns to numeric when possible *)
CoerceOther ==
    /\ pc = "numeric"
    /\ Running
    /\ df' = coerce_other_rows(columns, dtypes, df)
    /\ dtypes' = coerce_other_dtypes(columns, dtypes, df)
    /\ pc' = "filter"
    /\ UNCHANGED <<err, csv, columns, both_columns, df_both, df_scatter,
                   df_gapminder, years, year_slider, year_selection, shown_year, files>>

(* line 46: df_both = df[df["gender"] == "Both sexes"] *)
Filter ==
    /\ pc = "filter"
    /\ Running
    /\ IF HasCol(columns, GENDER)
       THEN /\ df_both' = filter_both(columns, df)
            /\ both_columns' = columns
            /\ pc' = "enrich"
            /\ err' = err
       ELSE /\ Raise("KeyError")
            /\ UNCHANGED <<df_both, both_columns>>
    /\ UNCHANGED <<csv, columns, dtypes, df, df_scatter, df_gapminder, years,
                   year_slider, year_selection, shown_year, files>>

(* line 47: df_both["continent"] = df_both['country'].apply(...) *)
Enrich ==
    /\ pc = "enrich"
    /\ Running
    /\ IF HasCol(both_columns, COUNTRY)
       THEN /\ \E outage \in [CountryValues(both_columns, df_both) -> 0..3] :
                 df_both' = enrich(both_columns, df_both, outage)
            /\ both_columns' = Append(both_columns, CONTINENT)
            /\ pc' = "scatter_data"
            /\ err' = err
       ELSE /\ Raise("KeyError")
            /\ UNCHANGED <<df_both, both_columns>>
    /\ UNCHANGED <<csv, columns, dtypes, df, df_scatter, df_gapminder, years,
                   year_slider, year_selection, shown_year, files>>

(* line 54: df_scatter = df_both.dropna(subset=[...]) *)
ScatterData ==
    /\ pc = "scatter_data"
    /\ Running
    /\ IF MissingColumns(both_columns, ScatterSubset) = {}
       THEN /\ df_scatter' = dropna(both_columns, df_both, ScatterSubset)
            /\ pc' = "scatter_save"
            /\ err' = err
       ELSE /\ Raise("KeyError")
            /\ UNCHANGED df_scatter
    /\ UNCHANGED <<csv, columns, dtypes, df, both_columns, df_both, df_gapminder,
                   years, year_slider, year_selection, shown_year, files>>

(* lines 57-94: build the layered chart and final_plot.save(...) *)
ScatterSave ==
    /\ pc = "scatter_save"
    /\ Running
    /\ files' = [files EXCEPT ![ScatterPath] = Document(df_scatter)]
    /\ pc' = "bubble_data"
    /\ UNCHANGED <<err, csv, columns, dtypes, df, both_columns, df_both, df_scatter,
                   df_gapminder, years, year_slider, year_selection, shown_year>>

(* line 100: df_gapminder = df_both.dropna(subset=[...]).copy() *)
BubbleData ==
    /\ pc = "bubble_data"
    /\ Running
    /\ IF MissingColumns(both_columns, GapminderSubset) = {}
       THEN /\ df_gapminder' = dropna(both_columns, df_both, GapminderSubset)
            /\ pc' = "years"
            /\ err' = err
       ELSE /\ Raise("KeyError")
            /\ UNCHANGED df_gapminder
    /\ UNCHANGED <<csv, columns, dtypes, df, both_columns, df_both, df_scatter,
                   years, year_slider, year_selection, shown_year, files>>

(* lines 103-105: years = sorted(...); print(years[0], years[-1]) *)
YearRange ==
    /\ pc = "years"
    /\ Running
    /\ years' = sorted_years(both_columns, df_gapminder)
    /\ IF years' = <<>>
       THEN Raise("IndexError")
       ELSE pc' = "year_control" /\ err' = err
    /\ UNCHANGED <<csv, columns, dtypes, df, both_columns, df_both, df_scatter,
                   df_gapminder, year_slider, year_selection, shown_year, files>>

(* min=int(years[0]) and value=int(years[0]) *)
slider_min(ys) == IntOf(ys[1])

(* a maximum taken from the first year *)
slider_max_first(ys) == IntOf(ys[1])

(* max=int(years[-1]) *)
slider_max(ys) == IntOf(ys[Len(ys)])

(* lines 146-157: year_slider = alt.binding_range(...); year_selection *)
YearControl ==
    /\ pc = "year_control"
    /\ Running
    /\ year_slider' = [min |-> slider_min(years), max |-> slider_max(years),
                       step |-> 1]
    /\ year_selection' = slider_min(years)
    /\ pc' = "bubble_save"
    /\ UNCHANGED <<err, csv, columns, dtypes, df, both_columns, df_both, df_scatter,
                   df_gapminder, years, shown_year, files>>

(* lines 160-167: add_params, transform_filter, animated_chart.save(...) *)
BubbleSave ==
    /\ pc = "bubble_save"
    /\ Running
    /\ files' = [files EXCEPT ![BubblePath] = Document(df_gapminder)]
    /\ shown_year' = year_selection
    /\ pc' = "done"
    /\ UNCHANGED <<err, csv, columns, dtypes, df, both_columns, df_both, df_scatter,
                   df_gapminder, years, year_slider, year_selection>>

(* lines 146-164, in the written document: the reader moves the slider *)
SlideYear ==
    /\ pc = "done"
    /\ Running
    /\ \E y \in SliderValues(year_slider) : shown_year' = y
    /\ UNCHANGED <<pc, err, csv, columns, dtypes, df, both_columns, df_both,
                   df_scatter, df_gapminder, years, year_slider, year_selection,
                   files>>

Next ==
    \/ Load
    \/ CleanColumns
    \/ DropDuplicates
    \/ Categorical
    \/ CoerceYear
    \/ CoerceOther
    \/ Filter
    \/ Enrich
    \/ ScatterData
    \/ ScatterSave
    \/ BubbleData
    \/ YearRange
    \/ YearControl
    \/ BubbleSave
    \/ SlideYear

Spec == Init /\ [][Next]_vars

---------------------------------------------------------------------------
(* Properties *)

Cell(cols, row, name) == row[ColIdx(cols, name)]

(* a row of an enriched table without its continent *)
Unenriched(row) == SubSeq(row, 1, Len(row) - 1)

(* the table as it is when duplicates have been dropped and no value has   *)
(* been coerced yet; its rows are aligned with the rows of df              *)
LoadedRows == drop_duplicates(read_csv_rows(csv))

WrittenPaths == {p \in DOMAIN files : files[p].written}

(* df_both holds exactly the rows of df whose gender is the text sentinel, *)
(* and so does every written document                                      *)
FilterKeepsExactly(sentinel) ==
    /\ pc = "enrich" =>
          df_both = SelectSeq(df, LAMBDA r : Cell(columns, r, GENDER) = Str(sentinel))
    /\ \A p \in WrittenPaths : \A i \in DOMAIN files[p].data :
          Cell(both_columns, files[p].data[i], GENDER) = Str(sentinel)

(* C1, as stated: the rows passed to both chart builders are exactly the   *)
(* rows whose gender equals "both sexes", compared exactly.                *)
C1_FilterLowercaseSentinel == FilterKeepsExactly("both sexes")

(* C1, amended: the rows passed to both chart builders are exactly the     *)
(* rows whose gender equals "Both sexes" (capital B; values are not        *)
(* lowercased); rows with any other gender, "both sexes" and "Male"        *)
(* included, or a null gender are excluded from both chart inputs.         *)
C1_FilterBothSexes == FilterKeepsExactly("Both sexes")

(* a run that wrote both documents from a table holding a "both sexes" row  *)
(* and a "Both sexes" row, and kept only the latter                        *)
C1_Witness ==
    /\ pc = "done"
    /\ \E r \in DOMAIN df : Cell(columns, df[r], GENDER) = Str("both sexes")
    /\ Len(df) = 2
    /\ Len(files[ScatterPath].data) = 1
    /\ Len(files[BubblePath].data) = 1

ContinentNames ==
    {"Africa", "Antarctica", "Asia", "Europe", "North America", "Oceania",
     "South America"}

(* C2: after the Geo-Enricher every row's continent is null or one of the  *)
(* seven continent names; a row whose lookup fails (unknown country, null  *)
(* country, a lookup step that raises) has a null continent; the lookup    *)
(* never raises out of the statement, and it leaves the number and the     *)
(* other attributes of the rows as the Filter produced them.               *)
C2_ContinentNullOrName ==
    /\ (pc = "enrich" /\ ~Running) => ~HasCol(both_columns, COUNTRY)
    /\ Completed("enrich") =>
          /\ \A r \in DOMAIN df_both :
                LET c == Cell(both_columns, df_both[r], CONTINENT)
                IN /\ IsNull(c) \/ (c.k = "str" /\ c.s \in ContinentNames)
                   /\ Cell(both_columns, df_both[r], COUNTRY) \notin {Str("France"), Str("Japan")}
                         => IsNull(c)
                   /\ ~IsNull(c) =>
                         c = IF Cell(both_columns, df_both[r], COUNTRY) = Str("France")
                             THEN Str("Europe") ELSE Str("Asia")
          /\ [r \in DOMAIN df_both |-> Unenriched(df_both[r])]
                = SelectSeq(df, LAMBDA r : Cell(columns, r, GENDER) = Str("Both sexes"))

(* an enriched table with a resolved row and a row of an unknown country   *)
C2_Witness ==
    /\ Completed("enrich")
    /\ \E r \in DOMAIN df_both :
          Cell(both_columns, df_both[r], CONTINENT) = Str("Europe")
    /\ \E r \in DOMAIN df_both :
          /\ Cell(both_columns, df_both[r], COUNTRY) = Str("Neverland")
          /\ IsNull(Cell(both_columns, df_both[r], CONTINENT))

NullContinentRows(p) ==
    {i \in DOMAIN files[p].data :
        IsNull(Cell(both_columns, files[p].data[i], CONTINENT))}

(* C3, as stated: a row whose country is not recognized is excluded from   *)
(* the input of both charts (its continent being null).                    *)
C3_UnrecognizedCountryInNeitherChart ==
    \A p \in WrittenPaths : \A i \in DOMAIN files[p].data :
        Cell(both_columns, files[p].data[i], COUNTRY) # Str("Neverland")

(* C3, amended: a row of an unrecognized country gets a null continent and *)
(* is excluded from the bubble chart only; the scatter chart's data holds  *)
(* every filtered row whose dietary indicator and life expectancy are not  *)
(* null, whatever its continent is.                                        *)
C3_NullContinentOnlyInScatter ==
    /\ Completed("enrich") =>
          \A r \in DOMAIN df_both :
              Cell(both_columns, df_both[r], COUNTRY) = Str("Neverland")
                  => IsNull(Cell(both_columns, df_both[r], CONTINENT))
    /\ Completed("bubble_data") =>
          \A r \in DOMAIN df_gapminder :
              ~IsNull(Cell(both_columns, df_gapminder[r], CONTINENT))
    /\ files[BubblePath].written => NullContinentRows(BubblePath) = {}
    /\ files[ScatterPath].written =>
          files[ScatterPath].data =
              SelectSeq(df_both, LAMBDA r :
                  /\ ~IsNull(Cell(both_columns, r, DIET))
                  /\ ~IsNull(Cell(both_columns, r, LIFE)))

(* both documents written, the row of Neverland in the scatter chart only  *)
C3_Witness ==
    /\ pc = "done"
    /\ \E i \in NullContinentRows(ScatterPath) :
          Cell(both_columns, files[ScatterPath].data[i], COUNTRY) = Str("Neverland")
    /\ Len(files[BubblePath].data) = 1
    /\ Len(files[ScatterPath].data) = 2

(* C4: the Normalizer is idempotent: applied to the table it produced, it  *)
(* removes no further row and changes no value; in particular no two rows  *)
(* of the normalized table are equal in all attributes.                    *)
C4_NormalizerIdempotent ==
    (pc = "filter") =>
        /\ Normalizer(columns, dtypes, df)
              = [err |-> "none", columns |-> columns, dtypes |-> dtypes, rows |-> df]
        /\ \A i, j \in DOMAIN df : df[i] = df[j] => i = j

(* the text-typed columns of the loaded table that lines 42-44 visit *)
TextColumns ==
    {i \in DOMAIN columns :
        /\ read_csv_dtypes(csv)[i] = "object"
        /\ columns[i] \notin {COUNTRY, GENDER, YEAR}}

(* the value a cell gets when it alone is converted *)
ParsedOrKept(c) ==
    IF c.k = "str" /\ c.s \in DOMAIN NumericLiteral
    THEN Num(NumericLiteral[c.s]) ELSE c

Unparsable(c) == c.k = "str" /\ c.s \notin DOMAIN NumericLiteral

(* C5, as stated: in every text-typed column other than country and gender *)
(* each value that parses becomes that number and each value that fails to *)
(* parse keeps its text.                                                   *)
C5_CoercionPerValue ==
    Completed("numeric") =>
        \A i \in TextColumns : \A r \in DOMAIN df :
            df[r][i] = ParsedOrKept(LoadedRows[r][i])

(* C5, amended: the coercion is per column: a text-typed column in which   *)
(* every value parses becomes numeric, and a column in which some value    *)
(* fails to parse is left as it was, every value keeping its original      *)
(* text; no column ends up holding both text and numbers.                  *)
C5_CoercionPerColumn ==
    Completed("numeric") =>
        \A i \in TextColumns :
            /\ IF \E r \in DOMAIN df : Unparsable(LoadedRows[r][i])
               THEN \A r \in DOMAIN df : df[r][i] = LoadedRows[r][i]
               ELSE \A r \in DOMAIN df : df[r][i] = ParsedOrKept(LoadedRows[r][i])
            /\ ~\E q, r \in DOMAIN df : df[q][i].k = "str" /\ df[r][i].k = "num"

(* a partially numeric column after the loop: "5" is still a text          *)
C5_Witness ==
    /\ Completed("numeric")
    /\ HasCol(columns, DIET)
    /\ \E q, r \in DOMAIN df :
          /\ Cell(columns, df[q], DIET) = Str("5")
          /\ Cell(columns, df[r], DIET) = Str("abc")

(* C6: every year that can be coerced to an integer becomes that integer,  *)
(* every other year (a text that is no number, a number that is not whole) *)
(* becomes null for its row only, and the coercion never ends the run.     *)
C6_YearCoercionNeverAborts ==
    /\ ~(pc = "year" /\ ~Running)
    /\ (Completed("year") /\ HasCol(columns, YEAR)) =>
          \A r \in DOMAIN df :
              LET was == ParsedOrKept(Cell(columns, LoadedRows[r], YEAR))
              IN Cell(columns, df[r], YEAR)
                    = IF was.k = "num" /\ was.n % 10 = 0 THEN was ELSE Null

RequiredByScatter == {COUNTRY, GENDER, DIET, LIFE}
RequiredByBubble == {COUNTRY, GENDER, GDP, LIFE, POP, YEAR}

(* the labels of the input file, compared without case *)
FileLabels ==
    {t \in RequiredByScatter \cup RequiredByBubble :
        \E i \in DOMAIN csv.header : clean_col(csv.header[i]) = t}

(* C7: a chart's document is written only if every attribute the chart     *)
(* requires is in the table; when one is absent the run ends with a        *)
(* KeyError before that document is written.                               *)
C7_MissingColumnAborts ==
    /\ files[ScatterPath].written => RequiredByScatter \subseteq FileLabels
    /\ files[BubblePath].written => RequiredByBubble \subseteq FileLabels
    /\ (Ended /\ ~(RequiredByScatter \subseteq FileLabels)) =>
          ~Running /\ ~files[ScatterPath].written
    /\ (Ended /\ ~(RequiredByBubble \subseteq FileLabels)) =>
          ~Running /\ ~files[BubblePath].written
    /\ (~Running /\ pc \in {"filter", "enrich", "scatter_data", "bubble_data"}) =>
          /\ err = "KeyError"
          /\ ~(RequiredByScatter \cup RequiredByBubble \subseteq FileLabels)

(* the population is absent: the scatter chart is written, the bubble chart *)
(* is refused                                                              *)
C7_Witness ==
    /\ err = "KeyError"
    /\ pc = "bubble_data"
    /\ POP \notin FileLabels
    /\ files[ScatterPath].written
    /\ ~files[BubblePath].written

(* the years of the rows embedded in the bubble chart's document           *)
BubbleYears ==
    {Cell(both_columns, files[BubblePath].data[i], YEAR).n \div 10 :
        i \in DOMAIN files[BubblePath].data}

RowsOfYear(y) ==
    SelectSeq(files[BubblePath].data,
              LAMBDA r : Cell(both_columns, r, YEAR) = Num(y * 10))

(* C8, as stated: the values the year control can take are exactly the     *)
(* distinct years of the bubble chart's data, its default is the least of  *)
(* them, its step is 1, selecting a year shows exactly the rows of that    *)
(* year, and every selectable year shows at least one row.                 *)
C8_ControlTakesExactlyTheYears ==
    files[BubblePath].written =>
        /\ SliderValues(year_slider) = BubbleYears
        /\ year_slider.step = 1
        /\ year_selection \in BubbleYears
        /\ \A y \in BubbleYears : year_selection <= y
        /\ Shown(both_columns, files[BubblePath], shown_year) = RowsOfYear(shown_year)
        /\ Shown(both_columns, files[BubblePath], shown_year) # <<>>

(* C8, amended: the year control takes every integer from the least to the *)
(* greatest year of the bubble chart's data, so every year of the data is  *)
(* selectable, and so is a year in between that no row has; its default is *)
(* the least year and its step 1; selecting a year shows exactly the rows  *)
(* of that year, at least one when the year is in the data and none when   *)
(* it is not.                                                              *)
C8_ControlTakesTheRangeOfYears ==
    files[BubblePath].written =>
        /\ BubbleYears # {}
        /\ year_slider.step = 1
        /\ year_slider.min \in BubbleYears
        /\ year_slider.max \in BubbleYears
        /\ \A y \in BubbleYears : year_slider.min <= y /\ y <= year_slider.max
        /\ SliderValues(year_slider) = year_slider.min..year_slider.max
        /\ year_selection = year_slider.min
        /\ shown_year \in SliderValues(year_slider)
        /\ Shown(both_columns, files[BubblePath], shown_year) = RowsOfYear(shown_year)
        /\ (Shown(both_columns, files[BubblePath], shown_year) # <<>>)
              <=> (shown_year \in BubbleYears)

(* the data has 2010 and 2012, the reader selects 2011 and sees no row     *)
C8_Witness ==
    /\ pc = "done"
    /\ BubbleYears = {2010, 2012}
    /\ year_selection = 2010
    /\ shown_year = 2011
    /\ Shown(both_columns, files[BubblePath], shown_year) = <<>>

(* C9: when no row remains for a chart builder, the builder either ends    *)
(* the run with the error of a missing column or writes its (empty)        *)
(* document; nothing else happens.                                         *)
C9_ZeroRowsWrittenOrMissingColumn ==
    /\ (Ended /\ Completed("scatter_data") /\ df_scatter = <<>>) =>
          files[ScatterPath].written
    /\ (Ended /\ Completed("bubble_data") /\ df_gapminder = <<>>) =>
          files[BubblePath].written
    /\ (~Running /\ pc \in {"scatter_data", "scatter_save", "bubble_data", "years",
                            "year_control", "bubble_save"}) =>
          err = "KeyError"

(* C10: the bubble chart's document is written only after the scatter      *)
(* chart's: the bubble builder reads its input exactly when the scatter    *)
(* document is written, a run that fails before or in the scatter builder  *)
(* writes neither document, and a run that fails in the bubble builder     *)
(* leaves the scatter document, with the scatter chart's rows, in place.   *)
C10_ScatterWrittenBeforeBubble ==
    /\ files[BubblePath].written => files[ScatterPath].written
    /\ files[ScatterPath].written <=> Completed("scatter_save")
    /\ files[BubblePath].written <=> pc = "done"
    /\ files[ScatterPath].written => files[ScatterPath].data = df_scatter
    /\ (~Running /\ ~Completed("scatter_save")) => WrittenPaths = {}
    /\ (~Running /\ Completed("scatter_save")) => WrittenPaths = {ScatterPath}

(* the bubble builder failed after the scatter document was written        *)
C10_Witness ==
    /\ ~Running
    /\ pc = "years"
    /\ files[ScatterPath].written
    /\ Len(files[ScatterPath].data) > 0
    /\ ~files[BubblePath].written

====
